---- MODULE Spec2Model ----
(***************************************************************************)
(* A model of the useSpeechToText hook (src/src/use-speech-to-text.ts):    *)
(* the session controller around the Web Speech API recognition object.    *)
(*                                                                         *)
(* Strings the code computes on (error codes, transcripts) are sequences   *)
(* of one-character strings, so that toUpperCase, replace and string       *)
(* concatenation are computed and not assumed.  An optional value          *)
(* (undefined / null in the source) is a set: {} for undefined, {v} for v. *)
(*                                                                         *)
(* Every handler is one action.  A setState(updater) call made by a        *)
(* handler is applied inside that handler's action, in the order of the    *)
(* calls; after the component is unmounted React drops the update and      *)
(* never calls the updater.                                                *)
(*                                                                         *)
(* Spec is the hook on an engine that follows the Web Speech API.  The     *)
(* other specifications are the same hook in a wider setting:              *)
(*   ThrowingSpec    stop() and abort() may throw                          *)
(*   LateEventsSpec  events queued before abort() are still delivered      *)
(*   RecoveringSpec  a constructor that threw works again later            *)
(*   QueuedSpec      setState of onresult and resetTranscript is queued    *)
(*                   until React renders                                   *)
(*   ReadmeSpec      the README's language switching handler is a caller   *)
(*   ProbeSpec       the compatibility check over all its inputs           *)
(***************************************************************************)
EXTENDS Integers, Sequences, FiniteSets, TLC

(***************************************************************************)
(* Bounds of the model.                                                    *)
(***************************************************************************)
\* the results log holds at most this many records
MaxResults == 2

(***************************************************************************)
(* Optional values and character sequences.                                *)
(***************************************************************************)
None == {}

Some(v) == {v}

Get(o) == CHOOSE v \in o : TRUE

\* JavaScript's  a ?? d
Nullish(o, d) == IF o = None THEN d ELSE Get(o)

LowerCase ==
  <<"a", "b", "c", "d", "e", "f", "g", "h", "i", "j", "k", "l", "m",
    "n", "o", "p", "q", "r", "s", "t", "u", "v", "w", "x", "y", "z">>

UpperCase ==
  <<"A", "B", "C", "D", "E", "F", "G", "H", "I", "J", "K", "L", "M",
    "N", "O", "P", "Q", "R", "S", "T", "U", "V", "W", "X", "Y", "Z">>

ToUpperChar(c) ==
  IF \E i \in DOMAIN LowerCase : LowerCase[i] = c
    THEN UpperCase[CHOOSE i \in DOMAIN LowerCase : LowerCase[i] = c]
    ELSE c

\* String.prototype.toUpperCase
toUpperCase(s) == [i \in 1..Len(s) |-> ToUpperChar(s[i])]

\* String.prototype.replace(pattern, replacement) with a one-character string
\* pattern: only the first occurrence is replaced
replace(s, pattern, replacement) ==
  IF \E i \in 1..Len(s) : s[i] = pattern
    THEN LET first == CHOOSE i \in 1..Len(s) :
                        /\ s[i] = pattern
                        /\ \A j \in 1..(i - 1) : s[j] # pattern
         IN  [i \in 1..Len(s) |-> IF i = first THEN replacement ELSE s[i]]
    ELSE s

IsPrefix(s, t) == Len(s) <= Len(t) /\ SubSeq(t, 1, Len(s)) = s

(***************************************************************************)
(* Error codes.                                                            *)
(***************************************************************************)
NOT_SUPPORTED == <<"N", "O", "T", "_", "S", "U", "P", "P", "O", "R", "T", "E", "D">>

INITIALIZATION_ERROR ==
  <<"I", "N", "I", "T", "I", "A", "L", "I", "Z", "A", "T", "I", "O", "N",
    "_", "E", "R", "R", "O", "R">>

START_ERROR == <<"S", "T", "A", "R", "T", "_", "E", "R", "R", "O", "R">>

\* the raw codes of SpeechRecognitionErrorEvent.error the handler switches on
no_speech == <<"n", "o", "-", "s", "p", "e", "e", "c", "h">>

audio_capture == <<"a", "u", "d", "i", "o", "-", "c", "a", "p", "t", "u", "r", "e">>

not_allowed == <<"n", "o", "t", "-", "a", "l", "l", "o", "w", "e", "d">>

network == <<"n", "e", "t", "w", "o", "r", "k">>

service_not_allowed ==
  <<"s", "e", "r", "v", "i", "c", "e", "-", "n", "o", "t", "-",
    "a", "l", "l", "o", "w", "e", "d">>

bad_grammar == <<"b", "a", "d", "-", "g", "r", "a", "m", "m", "a", "r">>

language_not_supported ==
  <<"l", "a", "n", "g", "u", "a", "g", "e", "-", "n", "o", "t", "-",
    "s", "u", "p", "p", "o", "r", "t", "e", "d">>

aborted == <<"a", "b", "o", "r", "t", "e", "d">>

KnownRawCodes ==
  { no_speech, audio_capture, not_allowed, network, service_not_allowed,
    bad_grammar, language_not_supported, aborted }

\* raw codes the switch does not know
UnknownRawCodes == { <<"f", "o", "o">>, <<"x", "-", "y", "-", "z">> }

RawCodes == KnownRawCodes \cup UnknownRawCodes

(***************************************************************************)
(* The environment the hook runs in, and checkBrowserCompatibility.        *)
(* ua* fields: the lower-cased user agent includes the marker.             *)
(* ios: the first match of /OS (\d+)_(\d+)/ as <<major, minor>>, if any.   *)
(* ctor: a SpeechRecognition constructor is present on window;             *)
(* ctorThrows: calling it throws.                                          *)
(***************************************************************************)
BaseEnv ==
  [ hasWindow |-> TRUE, brave |-> FALSE, uaChrome |-> FALSE, uaEdg |-> FALSE,
    uaSafari |-> FALSE, uaFirefox |-> FALSE, uaOpr |-> FALSE, uaOpera |-> FALSE,
    mobile |-> FALSE, mac |-> FALSE, ios |-> None, ctor |-> TRUE,
    ctorThrows |-> FALSE ]

ChromeEnv == [BaseEnv EXCEPT !.uaChrome = TRUE, !.uaSafari = TRUE]

ChromeThrowingEnv == [ChromeEnv EXCEPT !.ctorThrows = TRUE]

BraveEnv == [ChromeEnv EXCEPT !.brave = TRUE]

FirefoxEnv == [BaseEnv EXCEPT !.uaFirefox = TRUE, !.ctor = FALSE]

OldIPhoneEnv ==
  [BaseEnv EXCEPT !.uaSafari = TRUE, !.mobile = TRUE, !.mac = TRUE,
                  !.ios = Some(<<14, 4>>)]

\* the environments the controller is run in
Envs == { ChromeEnv, ChromeThrowingEnv, BraveEnv, FirefoxEnv, OldIPhoneEnv }

getBrowserSpeechRecognition(e) == e.hasWindow /\ e.ctor

\* variant of reasonUnless: the reason is left empty
reasonUnless_Empty(exists, why) == ""

\* reason: speechRecognitionExists ? "" : why
reasonUnless(exists, why) == IF exists THEN "" ELSE why

checkBrowserCompatibility(e) ==
  LET isBrave == e.brave
      isChrome == e.uaChrome /\ ~e.uaEdg /\ ~isBrave
      isEdge == e.uaEdg
      isSafari == e.uaSafari /\ ~e.uaChrome
      isFirefox == e.uaFirefox
      isOpera == e.uaOpr \/ e.uaOpera
      speechRecognitionExists == getBrowserSpeechRecognition(e)
      Plain(name, why) ==
        [ isSupported |-> speechRecognitionExists, browserName |-> name,
          reason |-> reasonUnless(speechRecognitionExists, why) ]
  IN
  IF ~e.hasWindow THEN
    [ isSupported |-> FALSE, browserName |-> "Unknown",
      reason |-> "Not running in browser environment" ]
  ELSE IF isBrave THEN
    [ isSupported |-> FALSE, browserName |-> "Brave",
      reason |-> "Brave Browser does not support Web Speech API for privacy reasons" ]
  ELSE IF isFirefox THEN
    [ isSupported |-> FALSE, browserName |-> "Firefox",
      reason |-> "Firefox does not support Web Speech API" ]
  ELSE IF isOpera THEN Plain("Opera", "Opera has limited Web Speech API support")
  ELSE IF isChrome THEN
    Plain("Chrome", "Chrome should support Web Speech API but it's not available")
  ELSE IF isEdge THEN
    Plain("Edge", "Edge should support Web Speech API but it's not available")
  ELSE IF isSafari THEN
    IF e.mobile /\ e.ios # None THEN
      LET majorVersion == Get(e.ios)[1]
          minorVersion == Get(e.ios)[2]
          isSupported == majorVersion > 14 \/ (majorVersion = 14 /\ minorVersion >= 5)
      IN  [ isSupported |-> isSupported /\ speechRecognitionExists,
            browserName |-> "Safari (iOS)",
            reason |-> IF ~isSupported
                         THEN "Web Speech API requires iOS 14.5 or later"
                         ELSE IF ~speechRecognitionExists
                           THEN "Web Speech API is not available"
                           ELSE "" ]
    ELSE IF e.mac THEN
      Plain("Safari (macOS)", "Web Speech API requires Safari 14.1 or later")
    ELSE
      Plain("Safari", "Web Speech API may not be supported on this Safari version")
  ELSE Plain("Unknown Browser", "This browser does not support Web Speech API")

(***************************************************************************)
(* Options.  A Partial<SpeechToTextOptions> is a record holding only the   *)
(* fields it specifies; the spread  {...a, ...b}  is Spread(a, b).         *)
(***************************************************************************)
Spread(a, b) ==
  [f \in (DOMAIN a) \cup (DOMAIN b) |-> IF f \in DOMAIN b THEN b[f] ELSE a[f]]

DEFAULT_OPTIONS ==
  [ continuous |-> Some(TRUE),
    interimResults |-> Some(TRUE),
    maxAlternatives |-> Some(1),
    language |-> Some("en-US"),
    autoStopOnSilence |->
      Some([enabled |-> FALSE, silenceDuration |-> Some(3000), onAutoStop |-> None]) ]

\* a Partial that specifies nothing (also the case of no argument at construction)
NoFields == [f \in {} |-> None]

AutoStop(enabled, duration, callback) ==
  [ autoStopOnSilence |->
      Some([enabled |-> enabled, silenceDuration |-> duration, onAutoStop |-> callback]) ]

\* the initialOptions the hook is constructed with
InitialOptionsSet ==
  { NoFields,
    AutoStop(TRUE, Some(2000), Some("cb")),
    AutoStop(TRUE, None, None) }

\* the argument of startListening: None when it is called without one
OverridesSet ==
  { None,
    Some([language |-> Some("fr-FR")]),
    Some(AutoStop(TRUE, None, None)) }

(***************************************************************************)
(* "result" events: resultIndex (0-based) and the list of results, each    *)
(* with its alternatives and its isFinal flag.                             *)
(***************************************************************************)
Alt(t, c) == [transcript |-> t, confidence |-> c]

Final(alternatives) == [alternatives |-> alternatives, isFinal |-> TRUE]

Interim(alternatives) == [alternatives |-> alternatives, isFinal |-> FALSE]

Hi == Final(<<Alt(<<"h", "i">>, 1)>>)

Y == Final(<<Alt(<<"y">>, 0), Alt(<<"n">>, 1)>>)

H == Interim(<<Alt(<<"h">>, 0)>>)

Event(k, r) == [resultIndex |-> k, results |-> r]

\* the "result" events the recognition object delivers
ResultEvents ==
  { Event(0, <<H>>), Event(0, <<Hi>>), Event(0, <<Y>>),
    Event(1, <<Hi, H>>), Event(0, <<Y, H>>), Event(0, <<Hi, Y>>),
    Event(1, <<Hi, Y, H>>), Event(2, <<Hi, Y>>) }

(***************************************************************************)
(* The recognition object (the capability).  cap is its phase:             *)
(*   "none"      no object has been constructed                            *)
(*   "idle"      constructed, no session                                   *)
(*   "starting"  start() accepted, "start" event not yet delivered         *)
(*   "active"    "start" delivered                                         *)
(*   "stopping"  stop() accepted: results may still come, then "end"       *)
(*   "aborting"  abort() accepted: no more results, then "end"             *)
(*   "closing"   "error" delivered: only "end" is left                     *)
(***************************************************************************)
\* start(): throws on an object that is already started, or when the engine
\* refuses (fails)
CapStart(c, fails) ==
  IF c = "idle" /\ ~fails
    THEN [cap |-> "starting", threw |-> FALSE]
    ELSE [cap |-> c, threw |-> TRUE]

CapStop(c) == IF c \in {"starting", "active"} THEN "stopping" ELSE c

CapAbort(c) == IF c \in {"starting", "active", "stopping"} THEN "aborting" ELSE c

(***************************************************************************)
(* The state of the hook.                                                  *)
(***************************************************************************)
VARIABLES
  phase,              \* "initial" (rendered, effects not run), "mounted", "unmounted"
  env,                \* the environment (window, navigator)
  state,              \* useState: the SpeechToTextState the hook returns
  recognitionRef,     \* TRUE when recognitionRef.current holds the recognition object
  silenceTimeoutRef,  \* None, or Some(id) of the timer last scheduled
  timers,             \* the pending timeouts, each [id, delay]
  transcriptRef,      \* [final, interim]
  optionsRef,         \* the working options
  cap,                \* the phase of the recognition object
  capCfg,             \* continuous, interimResults, maxAlternatives, lang of the object
  last,               \* what the last handler did: its name, its input, the commands
                      \* it issued to the recognition object, the arguments it called
                      \* onAutoStop with, and whether an exception escaped it; and
                      \* what the timer callback has done in the session so far
  pending             \* the state updates React has queued and not yet applied
                      \* (empty wherever a handler's update is applied at once)

vars ==
  << phase, env, state, recognitionRef, silenceTimeoutRef, timers, transcriptRef,
     optionsRef, cap, capCfg, last, pending >>

\* what the silence timer's callback has done since the last "start" or "end" event
\* (whether it has issued a stop command, whether it has called onAutoStop), and
\* whether stopListening or abortListening has issued its command since the last
\* "start" event
NothingYet == [stopped |-> FALSE, called |-> FALSE, cancelled |-> FALSE]

InitialLast ==
  [ op |-> "render", arg |-> None, cmds |-> <<>>, autoStop |-> <<>>, threw |-> FALSE,
    watchdog |-> NothingYet ]

Did(op, arg, cmds, autoStop, threw) ==
  [ op |-> op, arg |-> arg, cmds |-> cmds, autoStop |-> autoStop, threw |-> threw,
    watchdog |->
      IF op = "start" THEN NothingYet
      ELSE IF op = "end"
        THEN [NothingYet EXCEPT !.cancelled = last.watchdog.cancelled]
      ELSE IF op = "timeout"
        THEN [ stopped |-> last.watchdog.stopped \/ cmds # <<>>,
               called |-> last.watchdog.called \/ autoStop # <<>>,
               cancelled |-> last.watchdog.cancelled ]
      ELSE IF op \in {"stopListening", "abortListening"} /\ cmds # <<>>
        THEN [last.watchdog EXCEPT !.cancelled = TRUE]
        ELSE last.watchdog ]

\* a command issued to the recognition object, and whether it threw
Cmd(name, threw) == [cmd |-> name, threw |-> threw]

Error(code, message, name, browserInfo) ==
  [code |-> code, message |-> message, name |-> name, browserInfo |-> browserInfo]

\* variant of BrowserInfo: the reason of the probe is not carried
BrowserInfo_NoReason(browserName, reason) == [browserName |-> browserName, reason |-> ""]

BrowserInfo(browserName, reason) == [browserName |-> browserName, reason |-> reason]

InitialState ==
  [ isListening |-> FALSE, isSupported |-> FALSE, transcript |-> <<>>,
    interimTranscript |-> <<>>, finalTranscript |-> <<>>, results |-> <<>>,
    error |-> None, isInitializing |-> TRUE ]

\* setState(updater): next is updater(state); dropped once unmounted
setState(next) == IF phase = "unmounted" THEN state ELSE next

ApplyOptions(o) ==
  [ continuous |-> Nullish(o.continuous, TRUE),
    interimResults |-> Nullish(o.interimResults, TRUE),
    maxAlternatives |-> Nullish(o.maxAlternatives, 1),
    lang |-> Nullish(o.language, "en-US") ]

NoCfg == [continuous |-> FALSE, interimResults |-> FALSE, maxAlternatives |-> 0, lang |-> ""]

(***************************************************************************)
(* The silence watchdog.                                                   *)
(***************************************************************************)
\* variant of clearSilenceTimeout: the reference is dropped, the timer is not cancelled
clearSilenceTimeout_RefOnly(ref, tm) == [ref |-> None, timers |-> tm]

\* if (silenceTimeoutRef.current) { clearTimeout(...); silenceTimeoutRef.current = null }
clearSilenceTimeout(ref, tm) ==
  IF ref # None
    THEN [ref |-> None, timers |-> {t \in tm : t.id # Get(ref)}]
    ELSE [ref |-> ref, timers |-> tm]

FreshTimerId(tm) ==
  CHOOSE i \in 1..(Cardinality(tm) + 1) :
    /\ \A t \in tm : t.id # i
    /\ \A j \in 1..(i - 1) : \E t \in tm : t.id = j

\* window.setTimeout(callback, delay): an undefined delay is 0
setTimeout(tm, delay) ==
  LET id == FreshTimerId(tm)
  IN  [ref |-> Some(id), timers |-> tm \cup {[id |-> id, delay |-> Nullish(delay, 0)]}]

autoStopEnabled(o) ==
  o.autoStopOnSilence # None /\ Get(o.autoStopOnSilence).enabled

\* variant of resetSilenceTimeout: schedules with the default duration instead of
\* the configured one
resetSilenceTimeout_DefaultDelay(ref, tm, o) ==
  LET cleared == clearSilenceTimeout(ref, tm)
  IN  IF autoStopEnabled(o) THEN setTimeout(cleared.timers, Some(3000)) ELSE cleared

\* variant of resetSilenceTimeout: the pending timer is not cancelled before the new
\* one is scheduled
resetSilenceTimeout_NoClear(ref, tm, o) ==
  IF autoStopEnabled(o)
    THEN setTimeout(tm, Get(o.autoStopOnSilence).silenceDuration)
    ELSE [ref |-> ref, timers |-> tm]

resetSilenceTimeout(ref, tm, o) ==
  LET cleared == clearSilenceTimeout(ref, tm)
  IN  IF autoStopEnabled(o)
        THEN setTimeout(cleared.timers, Get(o.autoStopOnSilence).silenceDuration)
        ELSE cleared

(***************************************************************************)
(* initializeSpeechRecognition: the state it sets, whether it returns a    *)
(* recognition object, and the options applied to that object.             *)
(***************************************************************************)
initializeSpeechRecognition(s, e, o) ==
  LET browserCheck == checkBrowserCompatibility(e)
  IN
  IF ~browserCheck.isSupported THEN
    [ state |->
        [s EXCEPT !.isSupported = FALSE, !.isInitializing = FALSE,
                  !.error = Some(Error(NOT_SUPPORTED, browserCheck.reason,
                                       "NotSupportedError",
                                       Some(BrowserInfo(browserCheck.browserName,
                                                        browserCheck.reason))))],
      created |-> FALSE, cfg |-> NoCfg ]
  ELSE IF ~getBrowserSpeechRecognition(e) THEN
    [ state |->
        [s EXCEPT !.isSupported = FALSE, !.isInitializing = FALSE,
                  !.error = Some(Error(NOT_SUPPORTED,
                                       "Speech recognition is not supported in this browser",
                                       "NotSupportedError",
                                       Some(BrowserInfo(browserCheck.browserName,
                                                        "Web Speech API constructor not found"))))],
      created |-> FALSE, cfg |-> NoCfg ]
  ELSE IF e.ctorThrows THEN
    [ state |->
        [s EXCEPT !.isSupported = FALSE, !.isInitializing = FALSE,
                  !.error = Some(Error(INITIALIZATION_ERROR,
                                       "Failed to initialize speech recognition",
                                       "InitializationError", None))],
      created |-> FALSE, cfg |-> NoCfg ]
  ELSE
    [ state |-> [s EXCEPT !.isSupported = TRUE, !.isInitializing = FALSE],
      created |-> TRUE, cfg |-> ApplyOptions(o) ]

Init ==
  /\ phase = "initial"
  /\ env \in Envs
  /\ state = InitialState
  /\ recognitionRef = FALSE
  /\ silenceTimeoutRef = None
  /\ timers = {}
  /\ transcriptRef = [final |-> <<>>, interim |-> <<>>]
  /\ \E initialOptions \in InitialOptionsSet :
       optionsRef = Spread(DEFAULT_OPTIONS, initialOptions)
  /\ cap = "none"
  /\ capCfg = NoCfg
  /\ last = InitialLast
  /\ pending = <<>>

\* useEffect(() => { recognitionRef.current = initializeSpeechRecognition() ... })
Mount ==
  /\ phase = "initial"
  /\ LET r == initializeSpeechRecognition(state, env, optionsRef)
     IN  /\ state' = r.state
         /\ recognitionRef' = r.created
         /\ cap' = IF r.created THEN "idle" ELSE cap
         /\ capCfg' = IF r.created THEN r.cfg ELSE capCfg
  /\ phase' = "mounted"
  /\ last' = Did("mount", None, <<>>, <<>>, FALSE)
  /\ UNCHANGED <<env, silenceTimeoutRef, timers, transcriptRef, optionsRef>>
  /\ UNCHANGED pending

(***************************************************************************)
(* The public operations.                                                  *)
(***************************************************************************)
\* variant of notSupported: the support check is missing
notSupported_Never(s) == FALSE

\* variant of notSupported: the check only refuses while the hook is initializing
notSupported_OnlyWhileInitializing(s) == ~s.isSupported /\ s.isInitializing

\* if (!state.isSupported)
notSupported(s) == ~s.isSupported

\* variant of alreadyListening: the guard against a second start is missing
alreadyListening_Never(s) == FALSE

\* if (state.isListening) return
alreadyListening(s) == s.isListening

\* if (options) optionsRef.current = { ...optionsRef.current, ...options }
mergeOptions(current, options) ==
  IF options # None THEN Spread(current, Get(options)) ELSE current

\* variant of tryStart: no try/catch around the start command
tryStart_NoCatch(s, threw) == [state |-> s, escaped |-> threw]

\* try { ...; recognitionRef.current.start() } catch (error) { setState(...) }:
\* the state after it, and whether the exception escapes
tryStart(s, threw) ==
  [ state |-> IF threw
                THEN [s EXCEPT !.error =
                        Some(Error(START_ERROR, "Failed to start speech recognition",
                                   "StartError", None))]
                ELSE s,
    escaped |-> FALSE ]

\* variant of needsInitialization: a new recognition object is made on every start
needsInitialization_Always(ref) == TRUE

\* if (!recognitionRef.current)
needsInitialization(ref) == ~ref

\* startListening(options): fails is the engine refusing the start command
StartListening(options, fails) ==
  /\ phase = "mounted"
  /\ IF notSupported(state) THEN
       LET browserCheck == checkBrowserCompatibility(env)
       IN  /\ state' = setState(
                 [state EXCEPT !.error =
                    Some(Error(NOT_SUPPORTED, "Speech recognition is not supported",
                               "NotSupportedError",
                               Some(BrowserInfo(browserCheck.browserName,
                                                browserCheck.reason))))])
           /\ last' = Did("startListening", options, <<>>, <<>>, FALSE)
           /\ UNCHANGED <<recognitionRef, optionsRef, cap, capCfg>>
     ELSE IF alreadyListening(state) THEN
       /\ last' = Did("startListening", options, <<>>, <<>>, FALSE)
       /\ UNCHANGED <<state, recognitionRef, optionsRef, cap, capCfg>>
     ELSE
       LET o == mergeOptions(optionsRef, options)
           init == IF needsInitialization(recognitionRef)
                     THEN initializeSpeechRecognition(state, env, o)
                     ELSE [state |-> state, created |-> TRUE, cfg |-> capCfg]
           object == IF needsInitialization(recognitionRef) /\ init.created
                       THEN "idle" ELSE cap
           started == CapStart(object, fails)
           caught == tryStart(init.state, started.threw)
       IN
       /\ optionsRef' = o
       /\ recognitionRef' = init.created
       /\ IF ~init.created THEN
            /\ state' = setState(init.state)
            /\ last' = Did("startListening", options, <<>>, <<>>, FALSE)
            /\ UNCHANGED <<cap, capCfg>>
          ELSE
            /\ capCfg' = ApplyOptions(o)
            /\ cap' = started.cap
            /\ state' = setState(caught.state)
            /\ last' = Did("startListening", options, <<Cmd("start", started.threw)>>,
                           <<>>, caught.escaped)
  /\ UNCHANGED <<phase, env, silenceTimeoutRef, timers, transcriptRef>>
  /\ UNCHANGED pending

\* variant of stopListening: the stop command is issued whether or not isListening
\* is true
stopListening_Always(fails) ==
  /\ phase = "mounted"
  /\ IF recognitionRef THEN
       LET c == clearSilenceTimeout(silenceTimeoutRef, timers)
       IN  /\ silenceTimeoutRef' = c.ref
           /\ timers' = c.timers
           /\ cap' = IF fails THEN cap ELSE CapStop(cap)
           /\ last' = Did("stopListening", None, <<Cmd("stop", fails)>>, <<>>, fails)
     ELSE
       /\ last' = Did("stopListening", None, <<>>, <<>>, FALSE)
       /\ UNCHANGED <<silenceTimeoutRef, timers, cap>>
  /\ UNCHANGED <<phase, env, state, recognitionRef, transcriptRef, optionsRef, capCfg>>
  /\ UNCHANGED pending

\* stopListening(): fails is the engine refusing the stop command, which then
\* throws; nothing in stopListening catches it
stopListening(fails) ==
  /\ phase = "mounted"
  /\ IF recognitionRef /\ state.isListening THEN
       LET c == clearSilenceTimeout(silenceTimeoutRef, timers)
       IN  /\ silenceTimeoutRef' = c.ref
           /\ timers' = c.timers
           /\ cap' = IF fails THEN cap ELSE CapStop(cap)
           /\ last' = Did("stopListening", None, <<Cmd("stop", fails)>>, <<>>, fails)
     ELSE
       /\ last' = Did("stopListening", None, <<>>, <<>>, FALSE)
       /\ UNCHANGED <<silenceTimeoutRef, timers, cap>>
  /\ UNCHANGED <<phase, env, state, recognitionRef, transcriptRef, optionsRef, capCfg>>
  /\ UNCHANGED pending

\* with an engine that follows the Web Speech API, whose stop() does not throw
StopListening == stopListening(FALSE)

\* abortListening(): fails is the engine refusing the abort command, which then
\* throws; nothing in abortListening catches it
abortListening(fails) ==
  /\ phase = "mounted"
  /\ IF recognitionRef THEN
       LET c == clearSilenceTimeout(silenceTimeoutRef, timers)
       IN  /\ silenceTimeoutRef' = c.ref
           /\ timers' = c.timers
           /\ cap' = IF fails THEN cap ELSE CapAbort(cap)
           /\ last' = Did("abortListening", None, <<Cmd("abort", fails)>>, <<>>, fails)
     ELSE
       /\ last' = Did("abortListening", None, <<>>, <<>>, FALSE)
       /\ UNCHANGED <<silenceTimeoutRef, timers, cap>>
  /\ UNCHANGED <<phase, env, state, recognitionRef, transcriptRef, optionsRef, capCfg>>
  /\ UNCHANGED pending

\* with an engine that follows the Web Speech API, whose abort() does not throw
AbortListening == abortListening(FALSE)

\* variant of resetTranscriptUpdater: the results log is kept
resetTranscriptUpdater_KeepsResults(prev) ==
  [prev EXCEPT !.transcript = <<>>, !.interimTranscript = <<>>,
               !.finalTranscript = <<>>]

resetTranscriptUpdater(prev) ==
  [prev EXCEPT !.transcript = <<>>, !.interimTranscript = <<>>,
               !.finalTranscript = <<>>, !.results = <<>>]

ResetTranscript ==
  /\ phase = "mounted"
  /\ transcriptRef' = [final |-> <<>>, interim |-> <<>>]
  /\ state' = setState(resetTranscriptUpdater(state))
  /\ last' = Did("resetTranscript", None, <<>>, <<>>, FALSE)
  /\ UNCHANGED <<phase, env, recognitionRef, silenceTimeoutRef, timers, optionsRef,
                 cap, capCfg>>
  /\ UNCHANGED pending

ClearError ==
  /\ phase = "mounted"
  /\ state' = setState([state EXCEPT !.error = None])
  /\ last' = Did("clearError", None, <<>>, <<>>, FALSE)
  /\ UNCHANGED <<phase, env, recognitionRef, silenceTimeoutRef, timers, transcriptRef,
                 optionsRef, cap, capCfg>>
  /\ UNCHANGED pending

(***************************************************************************)
(* The handlers of the recognition object's events.                        *)
(***************************************************************************)
\* variant of onstartUpdater: the recorded error is kept
onstartUpdater_KeepsError(prev) == [prev EXCEPT !.isListening = TRUE]

onstartUpdater(prev) == [prev EXCEPT !.isListening = TRUE, !.error = None]

\* recognition.onstart
onstart ==
  /\ state' = setState(onstartUpdater(state))
  /\ LET r == resetSilenceTimeout(silenceTimeoutRef, timers, optionsRef)
     IN  /\ silenceTimeoutRef' = r.ref
         /\ timers' = r.timers
  /\ last' = Did("start", None, <<>>, <<>>, FALSE)
  /\ UNCHANGED <<phase, env, recognitionRef, transcriptRef, optionsRef, capCfg>>
  /\ UNCHANGED pending

\* the engine delivers "start" for an accepted start()
OnStart ==
  /\ cap = "starting"
  /\ cap' = "active"
  /\ onstart

RECURSIVE Concat(_)
\* the texts of a sequence of result records, concatenated in order
Concat(rs) ==
  IF rs = <<>> THEN <<>> ELSE Head(rs).transcript \o Concat(Tail(rs))

SelectFinal(rs, isFinal) == SelectSeq(rs, LAMBDA r : r.isFinal = isFinal)

\* variant of ProcessResults: the loop starts at 0 instead of event.resultIndex
ProcessResults_FromZero(ev) ==
  LET results == [i \in 1..Len(ev.results) |->
                    [ transcript |-> ev.results[i].alternatives[1].transcript,
                      confidence |-> ev.results[i].alternatives[1].confidence,
                      isFinal |-> ev.results[i].isFinal ]]
  IN  [ results |-> results,
        finalTranscript |-> Concat(SelectFinal(results, TRUE)),
        interimTranscript |-> Concat(SelectFinal(results, FALSE)) ]

\* the loop of onresult: the records of the entries from resultIndex on, and the
\* final and interim text they accumulate
ProcessResults(ev) ==
  LET entries == SubSeq(ev.results, ev.resultIndex + 1, Len(ev.results))
      results == [i \in 1..Len(entries) |->
                    [ transcript |-> entries[i].alternatives[1].transcript,
                      confidence |-> entries[i].alternatives[1].confidence,
                      isFinal |-> entries[i].isFinal ]]
  IN  [ results |-> results,
        finalTranscript |-> Concat(SelectFinal(results, TRUE)),
        interimTranscript |-> Concat(SelectFinal(results, FALSE)) ]

\* variant of onresultUpdater: the final transcript is replaced, not appended to
onresultUpdater_ReplacesFinal(prev, m) ==
  [prev EXCEPT !.transcript = m.finalTranscript \o m.interimTranscript,
               !.interimTranscript = m.interimTranscript,
               !.finalTranscript = m.finalTranscript,
               !.results = prev.results \o m.results]

\* the updater onresult hands to setState: the next state
onresultUpdater(prev, m) ==
  [prev EXCEPT !.transcript = m.finalTranscript \o m.interimTranscript,
               !.interimTranscript = m.interimTranscript,
               !.finalTranscript = prev.finalTranscript \o m.finalTranscript,
               !.results = prev.results \o m.results]

\* the updater's assignment to transcriptRef.current
onresultRef(prev, m) ==
  [final |-> prev.finalTranscript \o m.finalTranscript, interim |-> m.interimTranscript]

\* recognition.onresult
onresult(ev) ==
  /\ LET m == ProcessResults(ev)
     IN  /\ Len(state.results) + Len(m.results) <= MaxResults
         /\ state' = setState(onresultUpdater(state, m))
         /\ transcriptRef' =
              IF phase = "unmounted" THEN transcriptRef ELSE onresultRef(state, m)
  /\ LET r == resetSilenceTimeout(silenceTimeoutRef, timers, optionsRef)
     IN  /\ silenceTimeoutRef' = r.ref
         /\ timers' = r.timers
  /\ last' = Did("result", ev, <<>>, <<>>, FALSE)
  /\ UNCHANGED <<phase, env, recognitionRef, optionsRef, cap, capCfg>>
  /\ UNCHANGED pending

\* the engine delivers "result" during a session, also between stop() and "end"
OnResult(ev) ==
  /\ cap \in {"active", "stopping"}
  /\ onresult(ev)

errorMessage(raw) ==
  CASE raw = no_speech -> "No speech was detected"
    [] raw = audio_capture -> "Audio capture failed"
    [] raw = not_allowed -> "Permission to use microphone was denied"
    [] raw = network -> "Network error occurred"
    [] raw = service_not_allowed -> "Speech recognition service is not allowed"
    [] raw = bad_grammar -> "Grammar compilation failed"
    [] raw = language_not_supported -> "Language is not supported"
    [] raw = aborted -> "Speech recognition was aborted"
    [] OTHER -> "An unknown error occurred during speech recognition"

\* event.error.toUpperCase().replace("-", "_")
errorCode(raw) == replace(toUpperCase(raw), "-", "_")

onerrorUpdater(prev, raw) ==
  [prev EXCEPT !.isListening = FALSE,
               !.error = Some(Error(errorCode(raw), errorMessage(raw),
                                    "SpeechRecognitionError", None))]

OnError(raw) ==
  /\ cap \in {"starting", "active", "stopping", "aborting"}
  /\ cap' = "closing"
  /\ state' = setState(onerrorUpdater(state, raw))
  /\ last' = Did("error", raw, <<>>, <<>>, FALSE)
  /\ UNCHANGED <<phase, env, recognitionRef, silenceTimeoutRef, timers, transcriptRef,
                 optionsRef, capCfg>>
  /\ UNCHANGED pending

\* variant of onendUpdater: the end of a session also clears the error
onendUpdater_ClearsError(prev) == [prev EXCEPT !.isListening = FALSE, !.error = None]

onendUpdater(prev) == [prev EXCEPT !.isListening = FALSE]

OnEnd ==
  /\ cap \in {"active", "stopping", "aborting", "closing"}
  /\ cap' = "idle"
  /\ LET c == clearSilenceTimeout(silenceTimeoutRef, timers)
     IN  /\ silenceTimeoutRef' = c.ref
         /\ timers' = c.timers
  /\ state' = setState(onendUpdater(state))
  /\ last' = Did("end", None, <<>>, <<>>, FALSE)
  /\ UNCHANGED <<phase, env, recognitionRef, transcriptRef, optionsRef, capCfg>>
  /\ UNCHANGED pending

(***************************************************************************)
(* The timeout scheduled by resetSilenceTimeout expires.                   *)
(***************************************************************************)
\* variant of autoStopCalls: the callback is called with an empty transcript too
autoStopCalls_EvenWhenEmpty(o, ref) ==
  IF o.autoStopOnSilence # None /\ Get(o.autoStopOnSilence).onAutoStop # None
    THEN <<ref.final>>
    ELSE <<>>

\* the arguments the callback calls onAutoStop with
autoStopCalls(o, ref) ==
  IF /\ o.autoStopOnSilence # None
     /\ Get(o.autoStopOnSilence).onAutoStop # None
     /\ ref.final # <<>>
    THEN <<ref.final>>
    ELSE <<>>

WatchdogFire(t) ==
  /\ t \in timers
  /\ timers' = timers \ {t}
  /\ cap' = IF recognitionRef THEN CapStop(cap) ELSE cap
  /\ last' = Did("timeout", t, IF recognitionRef THEN <<Cmd("stop", FALSE)>> ELSE <<>>,
                 autoStopCalls(optionsRef, transcriptRef), FALSE)
  /\ UNCHANGED <<phase, env, state, recognitionRef, silenceTimeoutRef, transcriptRef,
                 optionsRef, capCfg>>
  /\ UNCHANGED pending

(***************************************************************************)
(* Unmount: the cleanups of the two effects, in order.                     *)
(***************************************************************************)
Teardown ==
  /\ phase = "mounted"
  /\ phase' = "unmounted"
  /\ recognitionRef' = FALSE
  /\ cap' = IF recognitionRef THEN CapAbort(cap) ELSE cap
  /\ LET c == clearSilenceTimeout(silenceTimeoutRef, timers)
     IN  /\ silenceTimeoutRef' = c.ref
         /\ timers' = c.timers
  /\ last' = Did("unmount", None, IF recognitionRef THEN <<Cmd("abort", FALSE)>> ELSE <<>>,
                 <<>>, FALSE)
  /\ UNCHANGED <<env, state, transcriptRef, optionsRef, capCfg>>
  /\ UNCHANGED pending

Next ==
  \/ Mount
  \/ \E options \in OverridesSet, fails \in BOOLEAN : StartListening(options, fails)
  \/ StopListening
  \/ AbortListening
  \/ ResetTranscript
  \/ ClearError
  \/ OnStart
  \/ \E ev \in ResultEvents : OnResult(ev)
  \/ \E raw \in RawCodes : OnError(raw)
  \/ OnEnd
  \/ \E t \in timers : WatchdogFire(t)
  \/ Teardown

Spec == Init /\ [][Next]_vars

(***************************************************************************)
(* The same hook on an engine whose stop() and abort() may refuse a        *)
(* command issued by a public operation and throw.                         *)
(***************************************************************************)
ThrowingNext ==
  \/ Next
  \/ stopListening(TRUE)
  \/ abortListening(TRUE)

ThrowingSpec == Init /\ [][ThrowingNext]_vars

(***************************************************************************)
(* The same hook on an engine that still delivers, after abort(), the      *)
(* events it had queued before: the "start" event of a start() that was    *)
(* accepted just before the abort, and "result" events of the session      *)
(* that was aborted.  The handlers stay attached to the aborted object.    *)
(***************************************************************************)
LateStart ==
  /\ cap = "aborting"
  /\ ~state.isListening
  /\ last.op \in {"unmount", "abortListening"}
  /\ UNCHANGED cap
  /\ onstart

LateResult(ev) ==
  /\ cap = "aborting"
  /\ state.isListening
  /\ onresult(ev)

LateEventsNext ==
  \/ Next
  \/ LateStart
  \/ \E ev \in ResultEvents : LateResult(ev)

LateEventsSpec == Init /\ [][LateEventsNext]_vars

(***************************************************************************)
(* The same hook in a browser whose constructor, having thrown, works      *)
(* again later (the failure was transient).                                *)
(***************************************************************************)
ConstructorRecovers ==
  /\ phase = "mounted"
  /\ env.ctorThrows
  /\ env' = [env EXCEPT !.ctorThrows = FALSE]
  /\ last' = Did("environment", None, <<>>, <<>>, FALSE)
  /\ UNCHANGED <<phase, state, recognitionRef, silenceTimeoutRef, timers, transcriptRef,
                 optionsRef, cap, capCfg>>
  /\ UNCHANGED pending

RecoveringNext ==
  \/ Next
  \/ ConstructorRecovers

RecoveringSpec == Init /\ [][RecoveringNext]_vars

(***************************************************************************)
(* The compatibility check over every combination of the signals it reads: *)
(* the hook is mounted, without options, in each such environment.         *)
(***************************************************************************)
IosVersions == {None, Some(<<13, 7>>), Some(<<14, 4>>), Some(<<14, 5>>), Some(<<15, 0>>)}

AllEnvs ==
  [ hasWindow : BOOLEAN, brave : BOOLEAN, uaChrome : BOOLEAN, uaEdg : BOOLEAN,
    uaSafari : BOOLEAN, uaFirefox : BOOLEAN, uaOpr : BOOLEAN, uaOpera : BOOLEAN,
    mobile : BOOLEAN, mac : BOOLEAN, ios : IosVersions, ctor : BOOLEAN,
    ctorThrows : {FALSE} ]

ProbeInit ==
  /\ phase = "initial"
  /\ env \in AllEnvs
  /\ state = InitialState
  /\ recognitionRef = FALSE
  /\ silenceTimeoutRef = None
  /\ timers = {}
  /\ transcriptRef = [final |-> <<>>, interim |-> <<>>]
  /\ optionsRef = Spread(DEFAULT_OPTIONS, NoFields)
  /\ cap = "none"
  /\ capCfg = NoCfg
  /\ last = InitialLast
  /\ pending = <<>>

\* effects run only where there is a window
ProbeNext == env.hasWindow /\ Mount

ProbeSpec == ProbeInit /\ [][ProbeNext]_vars

(***************************************************************************)
(* The same hook with React's update queue.  setState(updater) queues the  *)
(* updater, and the queued updaters run in order at the next render.  When *)
(* nothing is queued React may run the updater at once ("eagerly") and     *)
(* keep its result for the render; whether it does depends on React's      *)
(* bookkeeping of the component, so both happen.  onresult assigns         *)
(* transcriptRef.current inside its updater, resetTranscript assigns it    *)
(* before it calls setState.  The other handlers run between renders.      *)
(***************************************************************************)
Update(kind, arg, eager) == [kind |-> kind, arg |-> arg, eager |-> eager]

\* the results the queued updaters are to append
QueuedResults(q) ==
  LET lens == [i \in 1..Len(q) |->
                 IF q[i].kind = "result" THEN Len(q[i].arg.results) ELSE 0]
      Sum[i \in 0..Len(q)] == IF i = 0 THEN 0 ELSE Sum[i - 1] + lens[i]
  IN  Sum[Len(q)]

\* recognition.onresult, with its setState queued
QueuedResult(ev, eager) ==
  /\ phase = "mounted"
  /\ cap \in {"active", "stopping"}
  /\ Len(pending) <= MaxResults
  /\ eager => pending = <<>>
  /\ LET m == ProcessResults(ev)
     IN  /\ Len(state.results) + QueuedResults(pending) + Len(m.results) <= MaxResults
         /\ pending' = Append(pending, Update("result", m, eager))
         /\ transcriptRef' = IF eager THEN onresultRef(state, m) ELSE transcriptRef
  /\ LET r == resetSilenceTimeout(silenceTimeoutRef, timers, optionsRef)
     IN  /\ silenceTimeoutRef' = r.ref
         /\ timers' = r.timers
  /\ last' = Did("result", ev, <<>>, <<>>, FALSE)
  /\ UNCHANGED <<phase, env, state, recognitionRef, optionsRef, cap, capCfg>>

\* resetTranscript(), with its setState queued
QueuedResetTranscript ==
  /\ phase = "mounted"
  /\ Len(pending) <= MaxResults
  /\ transcriptRef' = [final |-> <<>>, interim |-> <<>>]
  /\ pending' = Append(pending, Update("reset", None, FALSE))
  /\ last' = Did("resetTranscript", None, <<>>, <<>>, FALSE)
  /\ UNCHANGED <<phase, env, state, recognitionRef, silenceTimeoutRef, timers,
                 optionsRef, cap, capCfg>>

RECURSIVE ApplyUpdates(_, _, _)
\* the queued updaters applied in order to state s: the state they give and what
\* they leave in transcriptRef.current
ApplyUpdates(s, ref, q) ==
  IF q = <<>> THEN [state |-> s, ref |-> ref]
  ELSE LET u == Head(q)
       IN  IF u.kind = "result"
             THEN ApplyUpdates(onresultUpdater(s, u.arg),
                               IF u.eager THEN ref ELSE onresultRef(s, u.arg),
                               Tail(q))
             ELSE ApplyUpdates(resetTranscriptUpdater(s), ref, Tail(q))

Render ==
  /\ pending # <<>>
  /\ LET r == ApplyUpdates(state, transcriptRef, pending)
     IN  /\ state' = r.state
         /\ transcriptRef' = r.ref
  /\ pending' = <<>>
  /\ last' = Did("render", None, <<>>, <<>>, FALSE)
  /\ UNCHANGED <<phase, env, recognitionRef, silenceTimeoutRef, timers, optionsRef,
                 cap, capCfg>>

QueuedNext ==
  \/ pending = <<>> /\ Next
  \/ \E ev \in ResultEvents, eager \in BOOLEAN : QueuedResult(ev, eager)
  \/ QueuedResetTranscript
  \/ Render

QueuedSpec == Init /\ [][QueuedNext]_vars

(***************************************************************************)
(* The README's dynamic language switching: a component whose handler      *)
(* calls  if (isListening) stopListening(); startListening({ language }).  *)
(* Both calls run in one event handler, so both read the state of the      *)
(* same render.                                                            *)
(***************************************************************************)
HandlerLanguages == {"es-ES"}

handleLanguageChange(language, fails) ==
  IF state.isListening THEN
    \* stopListening(), then startListening({ language }) with isListening still true
    /\ phase = "mounted"
    /\ LET stops == recognitionRef
           c == IF stops THEN clearSilenceTimeout(silenceTimeoutRef, timers)
                         ELSE [ref |-> silenceTimeoutRef, timers |-> timers]
       IN  /\ silenceTimeoutRef' = c.ref
           /\ timers' = c.timers
           /\ cap' = IF stops THEN CapStop(cap) ELSE cap
           /\ last' = Did("handleLanguageChange", Some([language |-> Some(language)]),
                          IF stops THEN <<Cmd("stop", FALSE)>> ELSE <<>>, <<>>, FALSE)
    /\ IF notSupported(state) THEN
         LET browserCheck == checkBrowserCompatibility(env)
         IN  state' = setState(
               [state EXCEPT !.error =
                  Some(Error(NOT_SUPPORTED, "Speech recognition is not supported",
                             "NotSupportedError",
                             Some(BrowserInfo(browserCheck.browserName,
                                              browserCheck.reason))))])
       ELSE IF alreadyListening(state) THEN
         UNCHANGED state
       ELSE
         FALSE
    /\ UNCHANGED <<phase, env, recognitionRef, transcriptRef, optionsRef, capCfg, pending>>
  ELSE
    StartListening(Some([language |-> Some(language)]), fails)

ReadmeNext ==
  \/ Next
  \/ \E language \in HandlerLanguages, fails \in BOOLEAN :
       handleLanguageChange(language, fails)

ReadmeSpec == Init /\ [][ReadmeNext]_vars

\* the engine delivers the events it owes: "start" after an accepted start(), "end"
\* to close every session; a pending timeout fires
ReadmeFairSpec ==
  /\ ReadmeSpec
  /\ WF_vars(OnStart)
  /\ WF_vars(OnEnd)
  /\ WF_vars(\E t \in timers : WatchdogFire(t))

(***************************************************************************)
(* Properties.  A step is named by the handler that took it: every action  *)
(* sets last.op, so  last'.op = "result"  holds of exactly the steps of    *)
(* OnResult.                                                               *)
(***************************************************************************)
NOT_ALLOWED == <<"N", "O", "T", "_", "A", "L", "L", "O", "W", "E", "D">>

\* the code of the recorded error, <<>> when none is recorded
CodeOf(s) == IF s.error = None THEN <<>> ELSE Get(s.error).code

\* upper case, with every hyphen an underscore
Normalized(raw) ==
  [i \in 1..Len(raw) |-> IF raw[i] = "-" THEN "_" ELSE ToUpperChar(raw[i])]

RECURSIVE TextFrom(_, _, _)
\* the texts of the entries R[i..] (1-based) whose isFinal flag is fin, in order
TextFrom(R, i, fin) ==
  IF i > Len(R) THEN <<>>
  ELSE (IF R[i].isFinal = fin THEN R[i].alternatives[1].transcript ELSE <<>>)
         \o TextFrom(R, i + 1, fin)

\* what the timeout callback is to call onAutoStop with, from the observable state
ExpectedAutoStop ==
  IF /\ optionsRef.autoStopOnSilence # None
     /\ Get(optionsRef.autoStopOnSilence).onAutoStop # None
     /\ state.finalTranscript # <<>>
    THEN <<state.finalTranscript>>
    ELSE <<>>

\* C1: in every reachable state the combined transcript is the final transcript
\* followed by the interim transcript.
C1_CombinedIsFinalPlusInterim ==
  state.transcript = state.finalTranscript \o state.interimTranscript

\* C2: the code recorded by the "error" handler is the raw code in upper case with
\* every hyphen replaced by an underscore.
C2_ErrorCodeNormalized ==
  (last.op = "error" /\ phase = "mounted") => CodeOf(state) = Normalized(last.arg)

\* C3: startListening called while isListening is true issues no command to the
\* recognition object, leaves the working options as they were (the overrides are
\* not merged) and changes no field of the state.
C3_StartWhileListeningIsNoOp ==
  [][ (last'.op = "startListening" /\ state.isListening) =>
        /\ last'.cmds = <<>>
        /\ ~last'.threw
        /\ optionsRef' = optionsRef
        /\ state' = state
        /\ cap' = cap
        /\ capCfg' = capCfg ]_vars

C3_Witness ==
  /\ last.op = "startListening"
  /\ state.isListening
  /\ last.arg # None
  /\ \E f \in DOMAIN Get(last.arg) : optionsRef[f] # Get(last.arg)[f]

\* C4: in every step other than resetTranscript the final transcript before the
\* step is a prefix of the final transcript after it.
C4_FinalOnlyGrows ==
  [][ last'.op # "resetTranscript" =>
        IsPrefix(state.finalTranscript, state'.finalTranscript) ]_vars

C4_Witness ==
  /\ last.op = "result"
  /\ state.finalTranscript = <<"h", "i", "y">>

\* C5: a "result" event with result index k and entries R appends the texts of the
\* final entries of R[k..] to the final transcript, makes the interim transcript
\* the texts of the non-final entries of R[k..], and appends one record per entry
\* of R[k..] to the results log, in order.
C5_ResultProcessesFromIndex ==
  [][ (last'.op = "result" /\ phase = "mounted") =>
        LET R == last'.arg.results
            k == last'.arg.resultIndex
            n == IF k < Len(R) THEN Len(R) - k ELSE 0
            before == Len(state.results)
        IN  /\ state'.finalTranscript = state.finalTranscript \o TextFrom(R, k + 1, TRUE)
            /\ state'.interimTranscript = TextFrom(R, k + 1, FALSE)
            /\ Len(state'.results) = before + n
            /\ SubSeq(state'.results, 1, before) = state.results
            /\ \A j \in 1..n :
                 state'.results[before + j] =
                   [ transcript |-> R[k + j].alternatives[1].transcript,
                     confidence |-> R[k + j].alternatives[1].confidence,
                     isFinal |-> R[k + j].isFinal ] ]_vars

C5_Witness ==
  /\ last.op = "result"
  /\ last.arg.resultIndex = 1
  /\ Len(last.arg.results) = 3
  /\ Len(state.results) = 2
  /\ state.finalTranscript = <<"y">>
  /\ state.interimTranscript = <<"h">>

C8_NotAllowedThenEnd ==
  [][ /\ (last'.op = "error" /\ last'.arg = not_allowed /\ phase = "mounted") =>
         /\ CodeOf(state') = NOT_ALLOWED
         /\ ~state'.isListening
      /\ (last'.op = "end" /\ phase = "mounted") =>
         /\ state'.error = state.error
         /\ ~state'.isListening ]_vars

C8_Witness ==
  /\ last.op = "end"
  /\ CodeOf(state) = NOT_ALLOWED
  /\ ~state.isListening

\* C9: startListening called while isSupported is false records an error with code
\* NOT_SUPPORTED, issues no command, creates no recognition object and leaves the
\* working options as they were.
C9_StartWhenUnsupported ==
  [][ (last'.op = "startListening" /\ ~state.isSupported) =>
        /\ CodeOf(state') = NOT_SUPPORTED
        /\ last'.cmds = <<>>
        /\ recognitionRef' = recognitionRef
        /\ cap' = cap
        /\ optionsRef' = optionsRef ]_vars

C9_Witness ==
  /\ last.op = "startListening"
  /\ ~state.isSupported
  /\ last.arg # None
  /\ CodeOf(state) = NOT_SUPPORTED
  /\ cap = "none"
  /\ env = ChromeThrowingEnv

\* C10: when the start command throws inside startListening the exception does not
\* escape, the recorded error has code START_ERROR, isListening stays false and
\* isSupported stays true.
C10_StartThrows ==
  [][ (last'.op = "startListening" /\ last'.cmds = <<Cmd("start", TRUE)>>) =>
        /\ ~last'.threw
        /\ CodeOf(state') = START_ERROR
        /\ ~state'.isListening
        /\ state'.isSupported ]_vars

C10_Witness ==
  /\ last.op = "startListening"
  /\ last.cmds = <<Cmd("start", TRUE)>>
  /\ CodeOf(state) = START_ERROR
  /\ cap = "starting"

PublicOperations ==
  {"startListening", "stopListening", "abortListening", "resetTranscript", "clearError"}

\* C11: no public operation raises to its caller, also when the start, stop or abort
\* command of the recognition object throws; the failure is recorded as the error
\* of the state instead.
C11_NoOperationRaises ==
  [][ (last'.op \in PublicOperations) =>
        /\ ~last'.threw
        /\ (\E i \in 1..Len(last'.cmds) : last'.cmds[i].threw) => state'.error # None
    ]_vars

\* C12: resetTranscript empties the final, interim and combined transcript and the
\* results log, leaves isListening, isSupported, isInitializing and error as they
\* were, and a second resetTranscript changes nothing more.
C12_ResetTranscript ==
  [][ (last'.op = "resetTranscript") =>
        /\ state'.finalTranscript = <<>>
        /\ state'.interimTranscript = <<>>
        /\ state'.transcript = <<>>
        /\ state'.results = <<>>
        /\ transcriptRef' = [final |-> <<>>, interim |-> <<>>]
        /\ state'.isListening = state.isListening
        /\ state'.isSupported = state.isSupported
        /\ state'.isInitializing = state.isInitializing
        /\ state'.error = state.error
        /\ setState(resetTranscriptUpdater(state')) = state'
        /\ ~last'.threw ]_vars

C12_Witness ==
  /\ last.op = "resetTranscript"
  /\ state.isListening
  /\ state.results = <<>>
  /\ cap = "stopping"
  /\ timers # {}

\* C13: abortListening called while isListening is false, with or without a
\* recognition object, does not raise, leaves the state as it was and leaves no
\* silence timer pending.
C13_AbortWhenNotListening ==
  [][ (last'.op = "abortListening" /\ ~state.isListening) =>
        /\ ~last'.threw
        /\ state' = state
        /\ timers' = {}
        /\ silenceTimeoutRef' = None ]_vars

C13_Witness ==
  /\ last.op = "abortListening"
  /\ ~state.isListening
  /\ last.cmds = <<Cmd("abort", FALSE)>>
  /\ cap = "closing"
  /\ autoStopEnabled(optionsRef)
  /\ state.error # None

\* C14: a startListening(overrides) that applies options leaves every option the
\* overrides do not specify as it was, and when the overrides give autoStopOnSilence
\* without a silence duration or without onAutoStop, that field of autoStopOnSilence
\* is left as it was too.
C14_OverridesKeepUnspecified ==
  [][ ( /\ last'.op = "startListening"
        /\ last'.arg # None
        /\ state.isSupported
        /\ ~state.isListening ) =>
        LET overrides == Get(last'.arg)
        IN  /\ \A f \in (DOMAIN optionsRef) \ (DOMAIN overrides) :
                 optionsRef'[f] = optionsRef[f]
            /\ ("autoStopOnSilence" \in DOMAIN overrides) =>
                 \A g \in {"silenceDuration", "onAutoStop"} :
                   Get(overrides.autoStopOnSilence)[g] = None =>
                     Get(optionsRef'.autoStopOnSilence)[g] =
                       Get(optionsRef.autoStopOnSilence)[g] ]_vars

\* C15: after construction every option the initial options leave unspecified has its
\* default, so none of the options that have a default is undefined, and with
\* autoStopOnSilence enabled and no silence duration given the watchdog is scheduled
\* with 3000 ms.
C15_UnspecifiedTakesDefault ==
  phase = "initial" =>
    /\ \A f \in DOMAIN DEFAULT_OPTIONS : optionsRef[f] # None
    /\ Get(optionsRef.autoStopOnSilence).silenceDuration # None
    /\ autoStopEnabled(optionsRef) =>
         \A t \in resetSilenceTimeout(None, {}, optionsRef).timers :
           t.delay = Nullish(Get(optionsRef.autoStopOnSilence).silenceDuration, 3000)

\* C16: mounting in an environment the compatibility check reports as unsupported
\* gives isSupported false, isInitializing false and an error with code NOT_SUPPORTED
\* whose browserInfo holds the browser name and the reason of the check; no
\* recognition object is created.
C16_MountUnsupported ==
  [][ (last'.op = "mount" /\ ~checkBrowserCompatibility(env).isSupported) =>
        LET browserCheck == checkBrowserCompatibility(env)
        IN  /\ ~state'.isSupported
            /\ ~state'.isInitializing
            /\ CodeOf(state') = NOT_SUPPORTED
            /\ Get(state'.error).browserInfo =
                 Some([ browserName |-> browserCheck.browserName,
                        reason |-> browserCheck.reason ])
            /\ ~recognitionRef'
            /\ cap' = "none" ]_vars

C16_Witness ==
  /\ last.op = "mount"
  /\ env = OldIPhoneEnv
  /\ ~checkBrowserCompatibility(env).isSupported
  /\ CodeOf(state) = NOT_SUPPORTED
  /\ ~recognitionRef

\* a start command has just been issued to a recognition object whose language is L
StartIssuedWith(L) ==
  /\ \E i \in 1..Len(last.cmds) : last.cmds[i].cmd = "start"
  /\ capCfg.lang = L

\* C17: when the README's language handler runs with language L while isListening is
\* true (stopListening() directly followed by startListening({language: L})), a start
\* command with the language of the recognition object set to L is eventually issued
\* (unless the component is unmounted first).
C17_LanguageSwitched ==
  \A L \in HandlerLanguages :
    ( /\ last.op = "handleLanguageChange"
      /\ state.isListening
      /\ last.arg = Some([language |-> Some(L)]) )
      ~> (StartIssuedWith(L) \/ phase = "unmounted")

\* C18: in every reachable state a silence timer is pending exactly when isListening
\* is true and autoStopOnSilence.enabled is true.
C18_WatchdogIffListening ==
  (timers # {}) <=> (state.isListening /\ autoStopEnabled(optionsRef))

\* C19: at most one silence timer is pending at any time; a "start" or "result"
\* event cancels the pending timer without firing it (no stop command, no onAutoStop
\* call) and, with auto-stop enabled, schedules one new timer with the configured
\* duration D; the timer that fires is the one scheduled last, so no "start" or
\* "result" event came between its scheduling and its firing.
C19_Debounced ==
  [][ /\ Cardinality(timers') <= 1
      /\ (last'.op \in {"start", "result"}) =>
           /\ last'.cmds = <<>>
           /\ last'.autoStop = <<>>
           /\ IF autoStopEnabled(optionsRef)
                THEN \E t \in timers' :
                       /\ timers' = {t}
                       /\ silenceTimeoutRef' = Some(t.id)
                       /\ LET D == Get(optionsRef.autoStopOnSilence).silenceDuration
                          IN  D # None => t.delay = Get(D)
                ELSE timers' = {}
      /\ (last'.op = "timeout") =>
           /\ last'.arg \in timers
           /\ silenceTimeoutRef = Some(last'.arg.id)
           /\ timers' = {} ]_vars

C19_Witness ==
  /\ last.op = "result"
  /\ Len(state.results) = MaxResults
  /\ cap = "active"
  /\ \E t \in timers : timers = {t} /\ t.delay = 2000 /\ silenceTimeoutRef = Some(t.id)

\* C20: a "start" event sets isListening to true and clears the recorded error: right
\* after every "start" event isListening is true and no error is recorded.
C20_StartClearsError ==
  [][ (last'.op = "start") => (state'.isListening /\ state'.error = None) ]_vars

C20_Witness ==
  /\ last.op = "start"
  /\ state.isListening
  /\ state.error = None
  /\ state.results # <<>>
  /\ cap = "active"

\* C21: stopListening issues a stop command and cancels the pending silence timer
\* exactly when isListening is true and a recognition object exists; otherwise it
\* issues no command, leaves the timer as it is and changes nothing of the state.
C21_StopListening ==
  [][ (last'.op = "stopListening") =>
        /\ state' = state
        /\ ~last'.threw
        /\ IF state.isListening /\ recognitionRef
             THEN /\ last'.cmds = <<Cmd("stop", FALSE)>>
                  /\ timers' = {}
                  /\ silenceTimeoutRef' = None
             ELSE /\ last'.cmds = <<>>
                  /\ timers' = timers
                  /\ silenceTimeoutRef' = silenceTimeoutRef
                  /\ cap' = cap ]_vars

C21_Witness ==
  /\ last.op = "stopListening"
  /\ last.cmds = <<Cmd("stop", FALSE)>>
  /\ state.isListening
  /\ cap = "stopping"
  /\ autoStopEnabled(optionsRef)
  /\ timers = {}

\* C22: in every reachable state, also after unmount and after "error" events,
\* isListening true implies that isSupported is true and that the hook holds a
\* recognition object.
C22_ListeningImpliesInstance ==
  state.isListening => (state.isSupported /\ recognitionRef)

\* C23: the hook has at most one live recognition object: one is created only when
\* none exists yet (at mount, or in startListening when the hook holds none), and a
\* startListening that finds an object issues its start command to that object, so
\* that an object already in a session refuses it and stays as it was.
C23_SingleInstance ==
  [][ /\ (recognitionRef' /\ ~recognitionRef) =>
           /\ cap = "none"
           /\ cap' \in {"idle", "starting"}
           /\ last'.op \in {"mount", "startListening"}
      /\ recognitionRef' => cap' # "none"
      /\ (last'.op = "startListening" /\ recognitionRef /\ last'.cmds # <<>>) =>
           IF cap = "idle"
             THEN cap' \in {"idle", "starting"}
             ELSE last'.cmds = <<Cmd("start", TRUE)>> /\ cap' = cap ]_vars

C23_Witness ==
  /\ last.op = "startListening"
  /\ last.cmds = <<Cmd("start", TRUE)>>
  /\ recognitionRef
  /\ cap = "closing"

\* C24: unmount issues an abort command to the recognition object if there is one and
\* leaves no silence timer pending; after unmount no silence timer is pending again,
\* the timer callback issues no stop command and onAutoStop is not called, whatever
\* events the recognition object still delivers.
C24_Teardown ==
  [][ /\ (last'.op = "unmount") =>
           /\ recognitionRef => last'.cmds = <<Cmd("abort", FALSE)>>
           /\ timers' = {}
      /\ (phase' = "unmounted") =>
           /\ timers' = {}
           /\ last'.autoStop = <<>>
           /\ (last'.op = "timeout") => last'.cmds = <<>> ]_vars

\* the browser offers the constructor and passes the compatibility check
ConstructorOffered ==
  checkBrowserCompatibility(env).isSupported /\ getBrowserSpeechRecognition(env)

\* the hook is unsupported in a browser that offers the constructor: its
\* instantiation threw at mount
InstantiationFailed ==
  phase # "initial" /\ ConstructorOffered /\ ~state.isSupported

\* C25: when the constructor throws at mount the hook has isSupported false,
\* isInitializing false and the error INITIALIZATION_ERROR, and this is final:
\* whatever is called afterwards, isSupported stays false, no recognition object is
\* created and no start command is issued, also when the constructor would work by
\* then.
C25_InstantiationFailureIsTerminal ==
  [][ /\ (last'.op = "mount" /\ ConstructorOffered /\ env.ctorThrows) =>
           /\ ~state'.isSupported
           /\ ~state'.isInitializing
           /\ CodeOf(state') = INITIALIZATION_ERROR
           /\ ~recognitionRef'
           /\ cap' = "none"
      /\ InstantiationFailed =>
           /\ ~state'.isSupported
           /\ ~recognitionRef'
           /\ cap' = "none"
           /\ last'.cmds = <<>> ]_vars

C25_Witness ==
  /\ InstantiationFailed
  /\ ~env.ctorThrows
  /\ last.op = "startListening"
  /\ CodeOf(state) = NOT_SUPPORTED
  /\ ~recognitionRef

\* C26: for every combination of the signals the compatibility check reads, it
\* returns a non-empty reason whenever it returns isSupported false, and that is the
\* reason the hook records when it is mounted there.
C26_UnsupportedHasReason ==
  LET browserCheck == checkBrowserCompatibility(env)
  IN  ~browserCheck.isSupported =>
        /\ browserCheck.reason # ""
        /\ (phase = "mounted") =>
             /\ state.error # None
             /\ Get(Get(state.error).browserInfo).reason = browserCheck.reason

C26_Witness ==
  /\ phase = "mounted"
  /\ env.uaSafari /\ ~env.uaChrome /\ env.mobile /\ env.uaEdg /\ env.mac
  /\ env.ios = Some(<<14, 5>>)
  /\ ~env.ctor
  /\ checkBrowserCompatibility(env).browserName = "Edge"
  /\ ~state.isSupported
  /\ Get(Get(state.error).browserInfo).reason # ""

\* C27: the final transcript the hook tracks for onAutoStop (transcriptRef.final) is
\* the finalTranscript of the state, in every state in which no update is waiting
\* for a render, across any interleaving of "result" events and resetTranscript.
C27_RefIsFinalTranscript ==
  pending = <<>> => transcriptRef.final = state.finalTranscript

\* a recognition object that has accepted a start command and has emitted neither
\* "end" nor "error" since
InSession == cap \in {"starting", "active", "stopping", "aborting"}

\* C28: startListening issues no start command to a recognition object that has
\* accepted one and has emitted neither "end" nor "error" since; in particular a
\* second startListening before the "start" event issues no second start command.
C28_NoSecondStart ==
  [][ (last'.op = "startListening" /\ InSession) =>
        \A i \in 1..Len(last'.cmds) : last'.cmds[i].cmd # "start" ]_vars

\* C29: stopListening called after startListening has issued the start command and
\* before the "start" event issues a stop command to the recognition object.
C29_StopBeforeStartEvent ==
  [][ (last'.op = "stopListening" /\ cap = "starting") =>
        /\ last'.cmds = <<Cmd("stop", FALSE)>>
        /\ cap' = "stopping" ]_vars

\* C30: within one session, from a "start" event to the following "end" event, the
\* timer callback calls onAutoStop at most once and issues at most one stop command,
\* whatever "result" events are delivered, also after the timer has fired.
C30_AtMostOneAutoStop ==
  [][ (last'.op = "timeout") =>
        /\ ~(last.watchdog.stopped /\ last'.cmds # <<>>)
        /\ ~(last.watchdog.called /\ last'.autoStop # <<>>) ]_vars

\* C31: once stopListening or abortListening has cancelled the silence timer and
\* issued its command, the timer callback issues no stop command and does not call
\* onAutoStop until the next "start" event, also when "result" events are delivered
\* before the "end" event.
C31_NoWatchdogAfterCancel ==
  [][ (last'.op = "timeout" /\ last.watchdog.cancelled) =>
        /\ last'.cmds = <<>>
        /\ last'.autoStop = <<>> ]_vars

====
